---- MODULE Spec2Model ----
(***************************************************************************)
(* Product store service: the request handlers of service/routes.py over  *)
(* the Product entity model and its datastore.                             *)
(***************************************************************************)
EXTENDS Integers, Sequences, FiniteSets, TLC

VARIABLES store, resp, created, deleted

vars == <<store, resp, created, deleted>>

(***************************************************************************)
(* Bounds and input domains                                                *)
(***************************************************************************)
MaxId == 2

Ids == 1..MaxId

\* ids a client may put in a payload: one the store assigns, one it never does
PayloadIds == {1, MaxId + 1}

Absent == [present |-> FALSE]

Some(v) == [present |-> TRUE, val |-> v]

JSON == "application/json"

ContentTypes == {Absent, Some(JSON), Some("text/plain"),
                 Some("application/json; charset=utf-8")}

\* the enumerated Category names
Categories == {"CLOTHS", "FOOD", "TOOLS"}

\* attributes every Python class object answers to besides its members
ClassAttributes == {"__class__", "__doc__"}

(***************************************************************************)
(* Small string library: a query value to be parsed is a sequence of      *)
(* one-character strings.                                                  *)
(***************************************************************************)
Whitespace == {" ", "\t", "\n"}

UpperCase == <<"A", "E", "F", "L", "N", "O", "R", "S", "T", "U", "Y", "B", "M">>

LowerCase == <<"a", "e", "f", "l", "n", "o", "r", "s", "t", "u", "y", "b", "m">>

LowerChar(c) ==
  IF \E k \in 1..Len(UpperCase) : UpperCase[k] = c
  THEN LowerCase[CHOOSE k \in 1..Len(UpperCase) : UpperCase[k] = c]
  ELSE c

lower(s) == [k \in 1..Len(s) |-> LowerChar(s[k])]

RECURSIVE lstrip(_)
lstrip(s) == IF s # <<>> /\ Head(s) \in Whitespace THEN lstrip(Tail(s)) ELSE s

RECURSIVE rstrip(_)
rstrip(s) ==
  IF s # <<>> /\ s[Len(s)] \in Whitespace
  THEN rstrip(SubSeq(s, 1, Len(s) - 1))
  ELSE s

strip(s) == rstrip(lstrip(s))

TrueTokens == {<<"t", "r", "u", "e">>, <<"1">>, <<"y", "e", "s">>, <<"y">>, <<"t">>}

FalseTokens == {<<"f", "a", "l", "s", "e">>, <<"0">>, <<"n", "o">>, <<"n">>, <<"f">>}

\* _parse_bool_param without the trimming of the value
parse_bool_param_untrimmed(value) ==
  IF ~value.present THEN "None"
  ELSE LET val == lower(value.val)
       IN IF val \in TrueTokens THEN "True"
          ELSE IF val \in FalseTokens THEN "False"
          ELSE "None"

\* True / False / None of the Python function, as strings
_parse_bool_param(value) ==
  IF ~value.present THEN "None"
  ELSE LET val == lower(strip(value.val))
       IN IF val \in TrueTokens THEN "True"
          ELSE IF val \in FalseTokens THEN "False"
          ELSE "None"

(***************************************************************************)
(* Request inputs                                                          *)
(***************************************************************************)
\* the decimal (in cents) that a price literal of a payload denotes
Decimal(lit) == CASE lit = "19.99" -> 1999 [] lit = "19.990" -> 1999 [] lit = "5" -> 500

\* str() of a stored price
PriceStr(cents) ==
  CASE cents = 1999 -> "19.99" [] cents = 500 -> "5" [] OTHER -> "0"

\* A request body: isDict is FALSE for a body that is not a JSON object;
\* "available" holds the JSON literal, so that "true" is the boolean and
\* "\"true\"" the string.
Hat == [isDict |-> TRUE, id |-> Absent, name |-> Some("Hat"),
        description |-> Some("warm"), price |-> Some("19.99"),
        available |-> Some("true"), category |-> Some("CLOTHS")]

Cap == [isDict |-> TRUE, id |-> Absent, name |-> Some("Cap"),
        description |-> Absent, price |-> Some("5"),
        available |-> Some("false"), category |-> Some("FOOD")]

NoBody == [isDict |-> FALSE, id |-> Absent, name |-> Absent,
           description |-> Absent, price |-> Absent,
           available |-> Absent, category |-> Absent]

ValidBodies == {Hat, Cap, [Hat EXCEPT !.price = Some("19.990")]}

InvalidBodies == {NoBody,
                  [Hat EXCEPT !.name = Absent],
                  [Cap EXCEPT !.price = Absent],
                  [Hat EXCEPT !.available = Some("\"true\"")],
                  [Cap EXCEPT !.category = Some("UNKNOWN_CATEGORY")]}

\* the bodies, and for two of them the same body carrying an id
Payloads ==
  ValidBodies \cup InvalidBodies
    \cup {[b EXCEPT !.id = Some(i)] :
            b \in {Hat, [Cap EXCEPT !.category = Some("UNKNOWN_CATEGORY")]},
            i \in PayloadIds}

\* the requests that carry a body: every payload under the JSON content
\* type, and a valid and an invalid payload under each other header
BodyRequests ==
  {<<Some(JSON), d>> : d \in Payloads}
    \cup {<<c, d>> : c \in ContentTypes \ {Some(JSON)},
                     d \in {Hat, [Hat EXCEPT !.name = Absent]}}

\* deserialize may or may not copy an id the payload carries
CopiesId(data) == IF data.id.present THEN BOOLEAN ELSE {FALSE}

NameArgs == {Absent, Some(""), Some("Hat")}

CategoryArgs == {Absent, Some(""), Some("CLOTHS"), Some("FOOD"), Some("cloths"),
                 Some("UNKNOWN_CATEGORY"), Some("__class__")}

AvailableArgs ==
  {Absent, Some(<<>>), Some(<<" ">>),
   Some(<<"t", "r", "u", "e">>), Some(<<" ", "T", "R", "U", "E", "\n">>),
   Some(<<"1">>), Some(<<"Y", "e", "s">>), Some(<<"y">>), Some(<<"T", " ">>),
   Some(<<"f", "a", "l", "s", "e">>), Some(<<"\t", "F", "a", "l", "s", "e">>),
   Some(<<"0">>), Some(<<"N", "O">>), Some(<<"n">>), Some(<<" ", "f">>),
   Some(<<"m", "a", "y", "b", "e">>), Some(<<"t", "r", " ", "u", "e">>),
   Some(<<"2">>), Some(<<"o", "n">>)}

\* the query strings of GET /products: every combination of the name and
\* category values with a few available values, and every available value
\* on its own
ListArgs ==
  {<<n, c, a>> : n \in NameArgs, c \in CategoryArgs,
                 a \in {Absent, Some(<<>>), Some(<<"t", "r", "u", "e">>),
                        Some(<<"m", "a", "y", "b", "e">>)}}
    \cup {<<Absent, Absent, a>> : a \in AvailableArgs}

(***************************************************************************)
(* Entity model (service/models.py): Product, Category, serialize and     *)
(* deserialize.                                                            *)
(***************************************************************************)
\* Product(): no id, nothing assigned yet
NewProduct == [id |-> 0, name |-> "", description |-> Absent, price |-> 0,
               available |-> FALSE, category |-> ""]

serialize(product) ==
  [id |-> product.id, name |-> product.name, description |-> product.description,
   price |-> PriceStr(product.price), available |-> product.available,
   category |-> product.category]

\* deserialize assigns the fields in order and raises DataValidationError at
\* the first one that is missing, of the wrong type or not a Category name;
\* the object keeps the assignments made before the error.  Whether a
\* client-supplied id is copied onto the object is left open (copiesId).
deserialize(product, data, copiesId) ==
  IF ~data.isDict
  THEN [ok |-> FALSE, product |-> product, error |-> <<"Invalid product: body", "">>]
  ELSE
  LET p0 == IF copiesId /\ data.id.present
            THEN [product EXCEPT !.id = data.id.val] ELSE product
  IN IF ~data.name.present
     THEN [ok |-> FALSE, product |-> p0, error |-> <<"Invalid product: missing ", "name">>]
     ELSE
  LET p1 == [p0 EXCEPT !.name = data.name.val, !.description = data.description]
  IN IF ~data.price.present
     THEN [ok |-> FALSE, product |-> p1, error |-> <<"Invalid product: missing ", "price">>]
     ELSE
  LET p2 == [p1 EXCEPT !.price = Decimal(data.price.val)]
  IN IF ~data.available.present
     THEN [ok |-> FALSE, product |-> p2, error |-> <<"Invalid product: missing ", "available">>]
     ELSE IF data.available.val \notin {"true", "false"}
     THEN [ok |-> FALSE, product |-> p2, error |-> <<"Invalid type for boolean [available]: ", data.available.val>>]
     ELSE
  LET p3 == [p2 EXCEPT !.available = (data.available.val = "true")]
  IN IF ~data.category.present
     THEN [ok |-> FALSE, product |-> p3, error |-> <<"Invalid product: missing ", "category">>]
     ELSE IF data.category.val \notin Categories
     THEN [ok |-> FALSE, product |-> p3, error |-> <<"Invalid attribute: ", data.category.val>>]
     ELSE [ok |-> TRUE, product |-> [p3 EXCEPT !.category = data.category.val],
           error |-> <<"", "">>]

(***************************************************************************)
(* Datastore: the stored rows, keyed by id.                                *)
(***************************************************************************)
\* Product.find: the row, or the id-less NewProduct standing for None
find(rows, product_id) ==
  IF product_id \in DOMAIN rows THEN rows[product_id] ELSE NewProduct

all(rows) == {rows[i] : i \in DOMAIN rows}

find_by_name(rows, name) == {p \in all(rows) : p.name = name}

find_by_category(rows, category) == {p \in all(rows) : p.category = category}

find_by_availability(rows, available) == {p \in all(rows) : p.available = available}

\* product.create(): the store assigns the id
create(rows, newId, product) ==
  [i \in DOMAIN rows \cup {newId} |->
     IF i = newId THEN [product EXCEPT !.id = newId] ELSE rows[i]]

\* product.update() of the row loaded as rowId
update(rows, rowId, product) ==
  [i \in (DOMAIN rows \ {rowId}) \cup {product.id} |->
     IF i = product.id THEN product ELSE rows[i]]

\* product.delete()
delete(rows, product) == [i \in DOMAIN rows \ {product.id} |-> rows[i]]

(***************************************************************************)
(* Utility functions of service/routes.py                                  *)
(***************************************************************************)
\* check_content_type that lets a request without the header through
check_content_type_lenient(header, content_type) ==
  IF ~header.present THEN 0
  ELSE IF header.val = content_type THEN 0
  ELSE 415

\* 0 when it returns, 415 when it aborts
check_content_type(header, content_type) ==
  IF ~header.present THEN 415
  ELSE IF header.val = content_type THEN 0
  ELSE 415

\* _get_product_or_404 with the test of the lookup inverted
get_product_inverted(rows, product_id) ==
  LET product == find(rows, product_id)
  IN IF product.id # 0
     THEN [found |-> FALSE, product |-> product,
           message |-> <<"Product with id was not found: ", product_id>>]
     ELSE [found |-> TRUE, product |-> product, message |-> <<"", 0>>]

\* _get_product_or_404 that hands back whatever find returned
get_product_unchecked(rows, product_id) ==
  [found |-> TRUE, product |-> find(rows, product_id),
   message |-> <<"", 0>>]

_get_product_or_404(rows, product_id) ==
  LET product == find(rows, product_id)
  IN IF product.id = 0
     THEN [found |-> FALSE, product |-> product,
           message |-> <<"Product with id was not found: ", product_id>>]
     ELSE [found |-> TRUE, product |-> product, message |-> <<"", 0>>]

\* getattr(Category, name): AttributeError unless the class has the attribute
getattr_Category(name) ==
  [raised |-> name \notin (Categories \cup ClassAttributes), value |-> name]

(***************************************************************************)
(* The last request and its response                                       *)
(***************************************************************************)
NoRequest ==
  [op |-> "none", id |-> 0, ctype |-> Absent, data |-> NoBody,
   name |-> Absent, category |-> Absent, available |-> Absent,
   status |-> 0, body |-> <<>>, location |-> Absent,
   deserialized |-> FALSE, queried |-> Absent]

Init ==
  /\ store = [i \in {} |-> NewProduct]
  /\ resp = NoRequest
  /\ created = [i \in {} |-> serialize(NewProduct)]
  /\ deleted = {}

(***************************************************************************)
(* GET /health and GET /                                                   *)
(***************************************************************************)
healthcheck ==
  /\ resp' = [NoRequest EXCEPT !.op = "health", !.status = 200,
                               !.body = [status |-> 200, message |-> "OK"]]
  /\ UNCHANGED <<store, created, deleted>>

index ==
  /\ resp' = [NoRequest EXCEPT !.op = "index", !.status = 200,
                               !.body = "index.html"]
  /\ UNCHANGED <<store, created, deleted>>

(***************************************************************************)
(* POST /products                                                          *)
(***************************************************************************)
create_products ==
  \E body \in BodyRequests : \E copiesId \in CopiesId(body[2]) :
    LET ctype == body[1]
        data  == body[2]
        req == [NoRequest EXCEPT !.op = "create", !.ctype = ctype, !.data = data]
        d   == deserialize(NewProduct, data, copiesId)
    IN IF check_content_type(ctype, JSON) # 0
       THEN /\ resp' = [req EXCEPT !.status = 415,
                                   !.body = <<"Content-Type must be ", JSON>>]
            /\ UNCHANGED <<store, created, deleted>>
       ELSE IF ~d.ok
       THEN /\ resp' = [req EXCEPT !.status = 400, !.body = d.error,
                                   !.deserialized = TRUE]
            /\ UNCHANGED <<store, created, deleted>>
       ELSE \E newId \in Ids \ DOMAIN store :
            /\ store' = create(store, newId, d.product)
            /\ resp' = [req EXCEPT !.status = 201,
                                   !.body = serialize(store'[newId]),
                                   !.location = Some(newId),
                                   !.deserialized = TRUE]
            /\ created' = [i \in DOMAIN created \cup {newId} |->
                             IF i = newId THEN resp'.body ELSE created[i]]
            /\ deleted' = deleted \ {newId}

(***************************************************************************)
(* GET /products/<id>                                                      *)
(***************************************************************************)
get_products ==
  \E product_id \in Ids :
    LET req == [NoRequest EXCEPT !.op = "get", !.id = product_id]
        got == _get_product_or_404(store, product_id)
    IN /\ resp' = IF got.found
                  THEN [req EXCEPT !.status = 200, !.body = serialize(got.product)]
                  ELSE [req EXCEPT !.status = 404, !.body = got.message]
       /\ UNCHANGED <<store, created, deleted>>

(***************************************************************************)
(* DELETE /products/<id>                                                   *)
(***************************************************************************)
delete_products ==
  \E product_id \in Ids :
    LET req == [NoRequest EXCEPT !.op = "delete", !.id = product_id]
        got == _get_product_or_404(store, product_id)
    IN IF ~got.found
       THEN /\ resp' = [req EXCEPT !.status = 404, !.body = got.message]
            /\ UNCHANGED <<store, created, deleted>>
       ELSE /\ store' = delete(store, got.product)
            /\ resp' = [req EXCEPT !.status = 204, !.body = ""]
            /\ created' = [i \in DOMAIN created \ {product_id} |-> created[i]]
            /\ deleted' = deleted \cup {product_id}

(***************************************************************************)
(* PUT /products/<id>                                                      *)
(***************************************************************************)
\* the checks of update_products with the lookup ahead of the content type
update_status_lookup_first(contentType, found, valid) ==
  IF ~found THEN 404
  ELSE IF contentType # 0 THEN 415
  ELSE IF ~valid THEN 400
  ELSE 200

\* the status update_products answers with: its aborts in program order
update_status(contentType, found, valid) ==
  IF contentType # 0 THEN 415
  ELSE IF ~found THEN 404
  ELSE IF ~valid THEN 400
  ELSE 200

\* the id left as deserialize set it
keep_payload_id(product, product_id) == product

\* product.id = product_id
pin_id(product, product_id) == [product EXCEPT !.id = product_id]

\* product.update() run even though deserialize raised
update_rows_unguarded(status, rows, product_id, product) ==
  IF status \in {200, 400} THEN update(rows, product_id, product) ELSE rows

\* product.update() is reached only when nothing aborted
update_rows(status, rows, product_id, product) ==
  IF status = 200 THEN update(rows, product_id, product) ELSE rows

update_products ==
  \E product_id \in Ids, body \in BodyRequests :
  \E copiesId \in CopiesId(body[2]) :
    LET ctype   == body[1]
        data    == body[2]
        req     == [NoRequest EXCEPT !.op = "update", !.id = product_id,
                                     !.ctype = ctype, !.data = data]
        ct      == check_content_type(ctype, JSON)
        got     == _get_product_or_404(store, product_id)
        d       == deserialize(got.product, data, copiesId)
        product == pin_id(d.product, product_id)
        status  == update_status(ct, got.found, d.ok)
    IN /\ store' = update_rows(status, store, product_id, product)
       /\ resp' = CASE status = 415 ->
                         [req EXCEPT !.status = 415,
                                     !.body = <<"Content-Type must be ", JSON>>]
                    [] status = 404 ->
                         [req EXCEPT !.status = 404, !.body = got.message]
                    [] status = 400 ->
                         [req EXCEPT !.status = 400, !.body = d.error,
                                     !.deserialized = TRUE]
                    [] status = 200 ->
                         [req EXCEPT !.status = 200, !.body = serialize(product),
                                     !.deserialized = TRUE]
       /\ created' = IF status = 200
                     THEN [i \in DOMAIN created \ {product_id} |-> created[i]]
                     ELSE created
       /\ UNCHANGED deleted

(***************************************************************************)
(* GET /products                                                           *)
(***************************************************************************)
\* the filter chain with category tested before name
list_filter_category_first(name, category, available) ==
  IF category.present /\ category.val # "" THEN "category"
  ELSE IF name.present /\ name.val # "" THEN "name"
  ELSE IF available.present THEN "available"
  ELSE "all"

\* the filter chain with available tested for truth like the other two
list_filter_truthy(name, category, available) ==
  IF name.present /\ name.val # "" THEN "name"
  ELSE IF category.present /\ category.val # "" THEN "category"
  ELSE IF available.present /\ available.val # <<>> THEN "available"
  ELSE "all"

\* which branch of the if/elif chain runs: "if name", "elif category",
\* "elif available is not None", "else"
list_filter(name, category, available) ==
  IF name.present /\ name.val # "" THEN "name"
  ELSE IF category.present /\ category.val # "" THEN "category"
  ELSE IF available.present THEN "available"
  ELSE "all"

Serialized(products) == {serialize(p) : p \in products}

\* the responses list_products can give to a request
list_responses(rows, req) ==
  LET name == req.name
      category == req.category
      available == req.available
      tier == list_filter(name, category, available)
      attr == getattr_Category(category.val)
      bool_value == _parse_bool_param(available)
  IN CASE tier = "name" ->
            {[req EXCEPT !.status = 200,
                         !.body = Serialized(find_by_name(rows, name.val))]}
       [] tier = "category" /\ attr.raised ->
            {[req EXCEPT !.status = 400,
                         !.body = <<"Invalid category: ", category.val>>]}
       [] tier = "category" /\ ~attr.raised /\ attr.value \in Categories ->
            {[req EXCEPT !.status = 200, !.queried = Some(attr.value),
                         !.body = Serialized(find_by_category(rows, attr.value))]}
       \* a class attribute that is no Category member reaches the query:
       \* the datastore either rejects the value or matches no row
       [] tier = "category" /\ ~attr.raised /\ attr.value \notin Categories ->
            {[req EXCEPT !.status = 500, !.queried = Some(attr.value),
                         !.body = <<"Internal Server Error", "">>],
             [req EXCEPT !.status = 200, !.queried = Some(attr.value),
                         !.body = Serialized(find_by_category(rows, attr.value))]}
       [] tier = "available" /\ bool_value = "None" ->
            {[req EXCEPT !.status = 400,
                         !.body = <<"Invalid availability: ", available.val>>]}
       [] tier = "available" /\ bool_value # "None" ->
            {[req EXCEPT !.status = 200,
                         !.body = Serialized(find_by_availability(rows, bool_value = "True"))]}
       [] tier = "all" ->
            {[req EXCEPT !.status = 200, !.body = Serialized(all(rows))]}

list_products ==
  \E args \in ListArgs :
    LET req == [NoRequest EXCEPT !.op = "list", !.name = args[1],
                                 !.category = args[2], !.available = args[3]]
    IN /\ resp' \in list_responses(store, req)
       /\ UNCHANGED <<store, created, deleted>>

Next ==
  \/ healthcheck
  \/ index
  \/ create_products
  \/ list_products
  \/ get_products
  \/ update_products
  \/ delete_products

Spec == Init /\ [][Next]_vars

(***************************************************************************)
(* Properties                                                              *)
(***************************************************************************)
\* the payload without the id a client may have put in it
Fields(data) == [data EXCEPT !.id = Absent]

\* a serialized record carries the values of payload P, the id apart
SameAsPayload(body, P) ==
  /\ body.name = P.name.val
  /\ body.description = P.description
  /\ Decimal(body.price) = Decimal(P.price.val)
  /\ body.available = (P.available.val = "true")
  /\ body.category = P.category.val

\* C1: a create answered 201 returns the payload's values under the id the
\* store assigned, and a retrieve of that id, with no update or delete of it
\* in between, answers 200 with that same record.
C1_CreateThenRetrieve ==
  /\ (resp.op = "create" /\ resp.status = 201) =>
        /\ SameAsPayload(resp.body, resp.data)
        /\ resp.location = Some(resp.body.id)
        /\ resp.body.id \in DOMAIN created
        /\ created[resp.body.id] = resp.body
  /\ (resp.op = "create" /\ resp.ctype = Some(JSON)
        /\ Fields(resp.data) \in ValidBodies) => resp.status = 201
  /\ (resp.op = "get" /\ resp.id \in DOMAIN created) =>
        /\ resp.status = 200
        /\ resp.body = created[resp.id]

C1_Witness ==
  /\ resp.op = "get"
  /\ resp.id \in DOMAIN created
  /\ resp.status = 200
  /\ resp.body.name = "Hat"

\* C2: an update of an existing id with a valid payload answers 200 with the
\* path id in the body whatever id the payload carries; the record is still
\* stored under the path id and no other row appears, disappears or changes.
C2_UpdateKeepsId ==
  [][resp'.op = "update" =>
       /\ (resp'.ctype = Some(JSON) /\ resp'.id \in DOMAIN store
             /\ Fields(resp'.data) \in ValidBodies) => resp'.status = 200
       /\ resp'.status = 200 =>
            /\ resp'.body.id = resp'.id
            /\ DOMAIN store' = DOMAIN store
            /\ store'[resp'.id].id = resp'.id
            /\ resp'.body = serialize(store'[resp'.id])
            /\ \A j \in DOMAIN store \ {resp'.id} : store'[j] = store[j]]_vars

C2_Witness ==
  /\ resp.op = "update"
  /\ resp.status = 200
  /\ resp.data.id.present
  /\ resp.data.id.val # resp.id
  /\ resp.data.id.val \in DOMAIN store

\* C3 as stated: once DELETE of an id answered 204, every GET, PUT or DELETE
\* of that id answers 404 until a create assigns the id again, and no list
\* result holds the id.
C3_DeletedIsNotFound ==
  [][\A i \in deleted :
       /\ (resp'.op \in {"get", "update", "delete"} /\ resp'.id = i) =>
             resp'.status = 404
       /\ (resp'.op = "list" /\ resp'.status = 200) =>
             \A b \in resp'.body : b.id # i]_vars

\* C3 amended: as above, except that a PUT answers 404 only under the JSON
\* content type and 415 under any other.
C3_DeletedIsNotFoundJson ==
  [][\A i \in deleted :
       /\ (resp'.op \in {"get", "delete"} /\ resp'.id = i) => resp'.status = 404
       /\ (resp'.op = "update" /\ resp'.id = i) =>
             resp'.status = IF resp'.ctype = Some(JSON) THEN 404 ELSE 415
       /\ (resp'.op = "list" /\ resp'.status = 200) =>
             \A b \in resp'.body : b.id # i]_vars

C3_Witness ==
  /\ resp.op = "get"
  /\ resp.id \in deleted
  /\ resp.status = 404

\* C4: a create whose Content-Type header is missing or is not exactly
\* application/json answers 415 whatever the body; the body is not
\* deserialized and the store is left as it was.
C4_CreateWrongContentType ==
  [][(resp'.op = "create" /\ resp'.ctype # Some(JSON)) =>
       /\ resp'.status = 415
       /\ ~resp'.deserialized
       /\ store' = store]_vars

C4_Witness ==
  /\ resp.op = "create"
  /\ resp.ctype = Some("text/plain")
  /\ resp.data = Hat
  /\ resp.status = 415

\* a parameter that is given and not the empty string
Given(arg) == arg.present /\ arg.val # ""

\* the response is one that the same request without the available
\* parameter can get
IgnoresAvailable(r, rows) ==
  \E q \in list_responses(rows, [r EXCEPT !.available = Absent, !.status = 0,
                                          !.body = <<>>, !.queried = Absent]) :
     q.status = r.status /\ q.body = r.body

\* C5 as stated: when name is supplied the list answers 200 with the
\* find-by-name result whatever category and available are; when name is
\* not supplied and category is, available is ignored; when none of the
\* three is supplied every stored product is returned.
C5_FilterPrecedence ==
  resp.op = "list" =>
    /\ resp.name.present =>
         /\ resp.status = 200
         /\ resp.body = Serialized(find_by_name(store, resp.name.val))
    /\ (~resp.name.present /\ resp.category.present) =>
         IgnoresAvailable(resp, store)
    /\ (~resp.name.present /\ ~resp.category.present /\ ~resp.available.present) =>
         /\ resp.status = 200
         /\ resp.body = Serialized(all(store))

\* C5 amended: the precedence holds with "supplied" read as "supplied and
\* not empty" for name and category: a non-empty name gives 200 with the
\* find-by-name result whatever category and available are; with name absent
\* or empty and category non-empty, available is ignored; with name and
\* category absent or empty and available absent, every stored product is
\* returned.
C5_FilterPrecedenceNonEmpty ==
  resp.op = "list" =>
    /\ Given(resp.name) =>
         /\ resp.status = 200
         /\ resp.body = Serialized(find_by_name(store, resp.name.val))
    /\ (~Given(resp.name) /\ Given(resp.category)) =>
         IgnoresAvailable(resp, store)
    /\ (~Given(resp.name) /\ ~Given(resp.category) /\ ~resp.available.present) =>
         /\ resp.status = 200
         /\ resp.body = Serialized(all(store))

C5_Witness ==
  /\ resp.op = "list"
  /\ resp.name = Some("Hat")
  /\ resp.category = Some("UNKNOWN_CATEGORY")
  /\ resp.available = Some(<<"m", "a", "y", "b", "e">>)
  /\ resp.status = 200
  /\ resp.body # {}

\* the available values that read as true and as false, listed by hand
TrueLikeArgs ==
  {<<"t", "r", "u", "e">>, <<" ", "T", "R", "U", "E", "\n">>, <<"1">>,
   <<"Y", "e", "s">>, <<"y">>, <<"T", " ">>}

FalseLikeArgs ==
  {<<"f", "a", "l", "s", "e">>, <<"\t", "F", "a", "l", "s", "e">>, <<"0">>,
   <<"N", "O">>, <<"n">>, <<" ", "f">>}

\* C6: a list with only the available parameter answers 200 with exactly
\* the available rows for a true-like value, 200 with exactly the
\* unavailable rows for a false-like value, and 400 with no list for any
\* other value, the empty string and "maybe" included.
C6_AvailableFilter ==
  (resp.op = "list" /\ ~resp.name.present /\ ~resp.category.present
     /\ resp.available.present) =>
    IF resp.available.val \in TrueLikeArgs
    THEN /\ resp.status = 200
         /\ resp.body = {serialize(p) : p \in {q \in all(store) : q.available}}
    ELSE IF resp.available.val \in FalseLikeArgs
    THEN /\ resp.status = 200
         /\ resp.body = {serialize(p) : p \in {q \in all(store) : ~q.available}}
    ELSE /\ resp.status = 400
         /\ resp.body = <<"Invalid availability: ", resp.available.val>>

C6_Witness ==
  /\ resp.op = "list"
  /\ ~resp.name.present
  /\ ~resp.category.present
  /\ resp.available = Some(<<" ", "T", "R", "U", "E", "\n">>)
  /\ resp.status = 200
  /\ resp.body # {}

\* C7: a list with a category value and no name answers 400 naming the
\* value when it is not an enumerated category name and 200 with only the
\* rows of that category when it is; nothing but an enumerated name reaches
\* the find-by-category query.
C7_CategoryFilter ==
  (resp.op = "list" /\ ~Given(resp.name) /\ Given(resp.category)) =>
    /\ resp.category.val \notin Categories =>
         /\ resp.status = 400
         /\ resp.body = <<"Invalid category: ", resp.category.val>>
    /\ resp.category.val \in Categories =>
         /\ resp.status = 200
         /\ resp.body = {serialize(p) :
                           p \in {q \in all(store) : q.category = resp.category.val}}
    /\ resp.queried.present => resp.queried.val \in Categories

\* C8: update_products answers by its first failing check, content type,
\* then existence, then payload: 415 under a non-JSON content type even for
\* a missing id, 404 for a missing id under JSON even with an invalid
\* payload, and 400 only under JSON for an existing id.
C8_UpdateCheckOrder ==
  [][resp'.op = "update" =>
       /\ resp'.ctype # Some(JSON) => resp'.status = 415
       /\ (resp'.ctype = Some(JSON) /\ resp'.id \notin DOMAIN store) =>
             resp'.status = 404
       /\ resp'.status = 400 =>
             /\ resp'.ctype = Some(JSON)
             /\ resp'.id \in DOMAIN store
             /\ Fields(resp'.data) \in InvalidBodies]_vars

C8_Witness ==
  /\ resp.op = "update"
  /\ resp.ctype = Some("text/plain")
  /\ resp.id \notin DOMAIN store
  /\ resp.status = 415

\* an available value that is neither true-like nor false-like
Unrecognized(arg) == arg.present /\ arg.val \notin (TrueLikeArgs \cup FalseLikeArgs)

\* C9 as stated: for every unrecognized value, the empty string included,
\* the result of the boolean parser differs from its result on an absent
\* parameter.
C9_InvalidDiffersFromAbsent ==
  (resp.op = "list" /\ Unrecognized(resp.available)) =>
     _parse_bool_param(resp.available) # _parse_bool_param(Absent)

\* C9 amended: the parser gives None both for an unrecognized value and
\* for an absent parameter; it is list_products that tells them apart, by
\* testing for absence before it parses: with no name and no category, an
\* unrecognized value, the empty string included, answers 400 and an absent
\* parameter answers 200 with every stored product.
C9_HandlerTellsInvalidFromAbsent ==
  (resp.op = "list" /\ ~Given(resp.name) /\ ~Given(resp.category)) =>
    /\ Unrecognized(resp.available) =>
         /\ _parse_bool_param(resp.available) = "None"
         /\ resp.status = 400
    /\ ~resp.available.present =>
         /\ _parse_bool_param(resp.available) = "None"
         /\ resp.status = 200
         /\ resp.body = Serialized(all(store))

C9_Witness ==
  /\ resp.op = "list"
  /\ ~resp.name.present
  /\ ~resp.category.present
  /\ resp.available = Some(<<>>)
  /\ resp.status = 400
  /\ store # <<>>

\* C10: a request answered 415, 404 or 400, and a health, index, list or
\* retrieve request, leaves every stored row as it was; a retrieve answered
\* 200 returns the row as stored, so that after an update answered 400 it
\* shows the values the row had before.
C10_ErrorsAndReadsKeepStore ==
  [][/\ (resp'.status \in {415, 404, 400}
           \/ resp'.op \in {"health", "index", "list", "get"}) => store' = store
     /\ (resp'.op = "get" /\ resp'.status = 200) =>
           resp'.body = serialize(store[resp'.id])]_vars

C10_Witness ==
  /\ resp.op = "update"
  /\ resp.status = 400
  /\ resp.id \in DOMAIN store
  /\ resp.data.name.present
  /\ resp.data.name.val # store[resp.id].name

====
